---- MODULE Spec2Model ----
(***************************************************************************)
(* Model of plan/refiner.go (package plan): the predicate-to-range         *)
(* refinement stage.  Expressions are tagged tuples whose first element is *)
(* the Go type of the node:                                                *)
(*   ast form           <<"Binary", Op, L, R>>  <<"Between", Expr, L, R>>  *)
(*                      <<"ColumnName", table, column>>                    *)
(*                      <<"IsNull", Expr, Not>> <<"IsTruth", Expr, True>>  *)
(*                      <<"Paren", Expr>>  <<"PatternIn", Expr, List, Not, *)
(*                      Sel>>  <<"PatternLike", Expr, Pattern, Not>>       *)
(*                      <<"Value", datum>> <<"Unary", Op, V>>              *)
(*                      <<"FuncCall", name, arg>>                          *)
(*   expression form    <<"ScalarFunction", FuncName, Args>>               *)
(*                      <<"Column", TblName, ColName>>                     *)
(*                      <<"Constant", datum>>                              *)
(* A datum is <<"null">>, <<"int", n>>, <<"str", chars>> or <<"max">>.     *)
(* Names are the lower-case (.L) form of a CIStr; "" is the empty name.    *)
(***************************************************************************)
EXTENDS Integers, Sequences, FiniteSets, TLC

VARIABLES nodes, orig, stack, pending, result, lastBuilt,
          conds, table, idx, colOffset, detached,
          cexpr, target, resCheck, resNewCheck

vars == <<nodes, orig, stack, pending, result, lastBuilt,
          conds, table, idx, colOffset, detached,
          cexpr, target, resCheck, resNewCheck>>

refineVars == <<nodes, orig, stack, pending, result, lastBuilt>>
detachVars == <<conds, table, idx, colOffset, detached>>
checkVars == <<cexpr, target, resCheck, resNewCheck>>

\* Bounds of the model.
MaxConds == 2
MaxIndexConds == 3
MaxDetachLen == 3
MaxPatLen == 2
IntBits == 4

----------------------------------------------------------------------------
\* Data constructors.

NullDatum == <<"null">>
MaxValueDatum == <<"max">>
IntDatum(n) == <<"int", n>>
StrDatum(s) == <<"str", s>>

Col(t, c) == <<"ColumnName", t, c>>
Lit(d) == <<"Value", d>>
Bin(op, l, r) == <<"Binary", op, l, r>>

NCol(t, c) == <<"Column", t, c>>
NConst(d) == <<"Constant", d>>
Fn(name, args) == <<"ScalarFunction", name, args>>

NoIdx == <<>>
CompareOps == {"EQ", "NE", "GE", "GT", "LE", "LT"}
CompareFuncs == {"eq", "ne", "ge", "gt", "le", "lt"}

----------------------------------------------------------------------------
\* Condition classifier, ast form.

\* ast.IsPreEvaluable: the node is a compile-time literal.
IsPreEvaluable(e) == e[1] = "Value"

\* types.ToString of a string literal's value: the string itself.
typesToString(d) == d[2]

checkColumnExpr(c, expr) ==
    IF expr[1] # "ColumnName" THEN FALSE
    ELSE IF expr[2] # c.tableName THEN FALSE
    ELSE IF c.pkName # "" THEN c.pkName = expr[3]
    ELSE IF c.idx # NoIdx THEN expr[3] = c.idx[c.columnOffset + 1]
    ELSE TRUE

\* The first-character test of the PatternLike case (refiner.go:224-225).
likeFirstChar(patternStr) == patternStr[1] # "%" /\ patternStr[1] # "."

\* The PatternLike case of check up to the read of patternStr[0]: TRUE when
\* control reaches refiner.go:224.
likeReachesIndex(c, x) ==
    /\ ~x[4]
    /\ checkColumnExpr(c, x[2])
    /\ IsPreEvaluable(x[3])
    /\ x[3][2] # NullDatum

\* patternStr[0] on an empty string is an index-out-of-range panic.
checkPanics(c, x) ==
    /\ x[1] = "PatternLike"
    /\ likeReachesIndex(c, x)
    /\ Len(typesToString(x[3][2])) = 0

RECURSIVE check(_, _)
RECURSIVE checkBinaryOperation(_, _)

check(c, x) ==
    CASE x[1] = "Binary" -> checkBinaryOperation(c, x)
      [] x[1] = "Between" ->
            IsPreEvaluable(x[3]) /\ IsPreEvaluable(x[4]) /\ checkColumnExpr(c, x[2])
      [] x[1] = "ColumnName" -> checkColumnExpr(c, x)
      [] x[1] = "IsNull" -> checkColumnExpr(c, x[2])
      [] x[1] = "IsTruth" -> checkColumnExpr(c, x[2])
      [] x[1] = "Paren" -> check(c, x[2])
      [] x[1] = "PatternIn" ->
            IF x[5] \/ x[4] THEN FALSE
            ELSE IF ~checkColumnExpr(c, x[2]) THEN FALSE
            ELSE \A i \in 1..Len(x[3]) : IsPreEvaluable(x[3][i])
      [] x[1] = "PatternLike" ->
            IF ~likeReachesIndex(c, x) THEN FALSE
            ELSE IF Len(typesToString(x[3][2])) = 0 THEN FALSE  \* panics: see checkPanics
            ELSE likeFirstChar(typesToString(x[3][2]))
      [] OTHER -> FALSE

checkBinaryOperation(c, b) ==
    CASE b[2] = "OrOr" -> check(c, b[3]) /\ check(c, b[4])
      [] b[2] = "AndAnd" -> check(c, b[3]) /\ check(c, b[4])
      [] b[2] \in CompareOps ->
            IF IsPreEvaluable(b[3]) THEN checkColumnExpr(c, b[4])
            ELSE IF IsPreEvaluable(b[4]) THEN checkColumnExpr(c, b[3])
            ELSE FALSE
      [] OTHER -> FALSE

----------------------------------------------------------------------------
\* Condition classifier, expression form.

checkColumn(c, expr) ==
    IF expr[1] # "Column" THEN FALSE
    ELSE IF expr[2] # c.tableName THEN FALSE
    ELSE IF c.pkName # "" THEN c.pkName = expr[3]
    ELSE IF c.idx # NoIdx THEN expr[3] = c.idx[c.columnOffset + 1]
    ELSE TRUE

RECURSIVE newCheck(_, _)
RECURSIVE checkScalarFunction(_, _)

newCheck(c, x) ==
    CASE x[1] = "ScalarFunction" -> checkScalarFunction(c, x)
      [] x[1] = "Column" -> checkColumn(c, x)
      [] x[1] = "Constant" -> TRUE
      [] OTHER -> FALSE

checkScalarFunction(c, scalar) ==
    CASE scalar[2] \in {"oror", "andand"} ->
            newCheck(c, scalar[3][1]) /\ newCheck(c, scalar[3][2])
      [] scalar[2] \in CompareFuncs ->
            IF scalar[3][1][1] = "Constant" THEN checkColumn(c, scalar[3][2])
            ELSE IF scalar[3][2][1] = "Constant" THEN checkColumn(c, scalar[3][1])
            ELSE FALSE
      [] scalar[2] \in {"isnull", "istruth", "isfalsity"} -> checkColumn(c, scalar[3][1])
      [] scalar[2] = "not" -> newCheck(c, scalar[3][1])
      [] OTHER -> FALSE

----------------------------------------------------------------------------
\* Predicate splitter.  A table is [Name, PKIsHandle, Columns], a column
\* <<name, hasPriKeyFlag>>.

RECURSIVE firstPriKey(_, _)
firstPriKey(columns, i) ==
    IF i > Len(columns) THEN ""
    ELSE IF columns[i][2] THEN columns[i][1]
    ELSE firstPriKey(columns, i + 1)

pkNameOf(tbl) == IF tbl.PKIsHandle THEN firstPriKey(tbl.Columns, 1) ELSE ""

\* The body of the loop over conditions (refiner.go:127-140): TRUE when con
\* goes to accessConditions.
isAccess(con, tbl, ix, off) ==
    /\ pkNameOf(tbl) # ""
    /\ newCheck([tableName |-> tbl.Name, pkName |-> pkNameOf(tbl),
                 idx |-> ix, columnOffset |-> off], con)

RECURSIVE detachLoopDup(_, _, _, _, _, _, _)
detachLoopDup(conditions, tbl, ix, off, i, acc, flt) ==
    IF i > Len(conditions) THEN <<acc, flt>>
    ELSE IF isAccess(conditions[i], tbl, ix, off)
         THEN detachLoopDup(conditions, tbl, ix, off, i + 1,
                            Append(acc, conditions[i]), Append(flt, conditions[i]))
         ELSE detachLoopDup(conditions, tbl, ix, off, i + 1, acc, Append(flt, conditions[i]))

RECURSIVE detachLoop(_, _, _, _, _, _, _)
detachLoop(conditions, tbl, ix, off, i, acc, flt) ==
    IF i > Len(conditions) THEN <<acc, flt>>
    ELSE IF isAccess(conditions[i], tbl, ix, off)
         THEN detachLoop(conditions, tbl, ix, off, i + 1, Append(acc, conditions[i]), flt)
         ELSE detachLoop(conditions, tbl, ix, off, i + 1, acc, Append(flt, conditions[i]))

detachConditionsDup(conditions, tbl, ix, off) ==
    detachLoopDup(conditions, tbl, ix, off, 1, <<>>, <<>>)

detachConditions(conditions, tbl, ix, off) ==
    detachLoop(conditions, tbl, ix, off, 1, <<>>, <<>>)

----------------------------------------------------------------------------
\* Range builder (plan/range.go is not part of the sources at hand; its
\* operations follow sections 3 and 4.3 of the specification).  A range point
\* is [value, start, excl]; the key space modelled is the integer one.

NoErr == "nil"
ErrUnsupported == "UnsupportedPredicateShape"
ErrCoercion == "ValueCoercionError"

MinInt64 == -(2 ^ (IntBits - 1))
MaxInt64 == (2 ^ (IntBits - 1)) - 1

fullRange == << [value |-> NullDatum, start |-> TRUE, excl |-> FALSE],
                [value |-> MaxValueDatum, start |-> FALSE, excl |-> FALSE] >>

Point(v, s, x) == [value |-> v, start |-> s, excl |-> x]

\* Total order of the value domain: NULL below and MaxValue above every integer.
datumKey(d) ==
    CASE d[1] = "null" -> MinInt64 - 1
      [] d[1] = "max" -> MaxInt64 + 1
      [] d[1] = "int" -> d[2]
      [] OTHER -> 0

\* Ties at one value: exclusive end, inclusive start, inclusive end, exclusive start.
pointKey(p) ==
    4 * datumKey(p.value) +
    (IF p.start THEN (IF p.excl THEN 3 ELSE 1) ELSE (IF p.excl THEN 0 ELSE 2))

RECURSIVE insertPoint(_, _)
insertPoint(p, s) ==
    IF s = <<>> THEN <<p>>
    ELSE IF pointKey(p) <= pointKey(Head(s)) THEN <<p>> \o s
    ELSE <<Head(s)>> \o insertPoint(p, Tail(s))

RECURSIVE sortPoints(_)
sortPoints(s) == IF s = <<>> THEN <<>> ELSE insertPoint(Head(s), sortPoints(Tail(s)))

\* The sweep over the merged boundary events: a point is kept where the
\* coverage counter reaches or leaves `required`.
RECURSIVE sweep(_, _, _)
sweep(s, inRange, required) ==
    IF s = <<>> THEN <<>>
    ELSE IF Head(s).start
         THEN (IF inRange + 1 = required THEN <<Head(s)>> ELSE <<>>)
              \o sweep(Tail(s), inRange + 1, required)
         ELSE (IF inRange = required THEN <<Head(s)>> ELSE <<>>)
              \o sweep(Tail(s), inRange - 1, required)

merge(a, b, required) == sweep(sortPoints(a \o b), 0, required)

\* rb.intersection: nothing is produced once the builder holds an error.
intersection(err, a, b) == IF err # NoErr THEN <<>> ELSE merge(a, b, 2)

cmpPoints(op, v) ==
    CASE op = "EQ" -> <<Point(v, TRUE, FALSE), Point(v, FALSE, FALSE)>>
      [] op = "NE" -> <<Point(NullDatum, TRUE, FALSE), Point(v, FALSE, TRUE),
                        Point(v, TRUE, TRUE), Point(MaxValueDatum, FALSE, FALSE)>>
      [] op = "GT" -> <<Point(v, TRUE, TRUE), Point(MaxValueDatum, FALSE, FALSE)>>
      [] op = "GE" -> <<Point(v, TRUE, FALSE), Point(MaxValueDatum, FALSE, FALSE)>>
      [] op = "LT" -> <<Point(NullDatum, TRUE, FALSE), Point(v, FALSE, TRUE)>>
      [] op = "LE" -> <<Point(NullDatum, TRUE, FALSE), Point(v, FALSE, FALSE)>>

flipOp(op) ==
    CASE op = "GT" -> "LT" [] op = "GE" -> "LE" [] op = "LT" -> "GT" [] op = "LE" -> "GE"
      [] OTHER -> op

\* A literal that is no integer cannot be coerced to the key's domain.
cmpBuild(op, d) ==
    IF d[1] = "int" THEN [points |-> cmpPoints(op, d), err |-> NoErr]
    ELSE [points |-> <<>>, err |-> ErrCoercion]

RECURSIVE inPoints(_)
inPoints(vals) ==
    IF vals = {} THEN <<>>
    ELSE LET m == CHOOSE v \in vals : \A w \in vals : v <= w
         IN  cmpPoints("EQ", IntDatum(m)) \o inPoints(vals \ {m})

\* build on the ast form.  Shapes outside the list of section 4.3 fail.
build(e) ==
    CASE e[1] = "Binary" /\ e[2] \in CompareOps /\ e[4][1] = "Value" -> cmpBuild(e[2], e[4][2])
      [] e[1] = "Binary" /\ e[2] \in CompareOps /\ e[3][1] = "Value" ->
            cmpBuild(flipOp(e[2]), e[3][2])
      [] e[1] = "Between" /\ e[3][1] = "Value" /\ e[4][1] = "Value" ->
            IF e[3][2][1] # "int" \/ e[4][2][1] # "int" THEN [points |-> <<>>, err |-> ErrCoercion]
            ELSE IF e[3][2][2] > e[4][2][2] THEN [points |-> <<>>, err |-> NoErr]
            ELSE [points |-> <<Point(e[3][2], TRUE, FALSE), Point(e[4][2], FALSE, FALSE)>>,
                  err |-> NoErr]
      [] e[1] = "PatternIn" ->
            IF \E i \in 1..Len(e[3]) : e[3][i][1] # "Value" \/ e[3][i][2][1] # "int"
            THEN [points |-> <<>>, err |-> ErrCoercion]
            ELSE [points |-> inPoints({e[3][i][2][2] : i \in 1..Len(e[3])}),
                  err |-> NoErr]
      [] e[1] = "IsNull" ->
            [points |-> <<Point(NullDatum, TRUE, FALSE), Point(NullDatum, FALSE, FALSE)>>,
             err |-> NoErr]
      [] e[1] = "Value" -> [points |-> fullRange, err |-> NoErr]
      [] OTHER -> [points |-> <<>>, err |-> ErrUnsupported]

funcOp(name) ==
    CASE name = "eq" -> "EQ" [] name = "ne" -> "NE" [] name = "ge" -> "GE"
      [] name = "gt" -> "GT" [] name = "le" -> "LE" [] name = "lt" -> "LT"

\* newBuild on the expression form.
newBuild(e) ==
    CASE e[1] = "ScalarFunction" /\ e[2] \in CompareFuncs /\ e[3][2][1] = "Constant" ->
            cmpBuild(funcOp(e[2]), e[3][2][2])
      [] e[1] = "ScalarFunction" /\ e[2] \in CompareFuncs /\ e[3][1][1] = "Constant" ->
            cmpBuild(flipOp(funcOp(e[2])), e[3][1][2])
      [] e[1] = "ScalarFunction" /\ e[2] = "isnull" ->
            [points |-> <<Point(NullDatum, TRUE, FALSE), Point(NullDatum, FALSE, FALSE)>>,
             err |-> NoErr]
      [] e[1] = "Constant" -> [points |-> fullRange, err |-> NoErr]
      [] OTHER -> [points |-> <<>>, err |-> ErrUnsupported]

\* The builder keeps the first error it met.
keepErr(err, e) == IF err # NoErr THEN err ELSE e

\* Exclusive integer bounds become value +/- 1; the sentinels become the
\* ends of the handle space.
lowBound(p) ==
    CASE p.value[1] = "null" -> MinInt64
      [] p.value[1] = "max" -> MaxInt64
      [] OTHER -> IF p.excl THEN p.value[2] + 1 ELSE p.value[2]

highBound(p) ==
    CASE p.value[1] = "null" -> MinInt64
      [] p.value[1] = "max" -> MaxInt64
      [] OTHER -> IF p.excl THEN p.value[2] - 1 ELSE p.value[2]

buildTableRanges(points) ==
    [i \in 1..(Len(points) \div 2) |->
        [LowVal |-> lowBound(points[2 * i - 1]), HighVal |-> highBound(points[2 * i])]]

buildIndexRanges(points) ==
    [i \in 1..(Len(points) \div 2) |->
        [LowVal |-> <<points[2 * i - 1].value>>, HighVal |-> <<points[2 * i].value>>,
         LowExclude |-> points[2 * i - 1].excl, HighExclude |-> points[2 * i].excl]]

\* One range per pair of an existing range and an interval of the points.
appendIndexRanges(origin, points) ==
    LET m == Len(points) \div 2
    IN  [j \in 1..(Len(origin) * m) |->
            LET o == origin[((j - 1) \div m) + 1]
                i == ((j - 1) % m) + 1
            IN  [LowVal |-> Append(o.LowVal, points[2 * i - 1].value),
                 HighVal |-> Append(o.HighVal, points[2 * i].value),
                 LowExclude |-> points[2 * i - 1].excl,
                 HighExclude |-> points[2 * i].excl]]

----------------------------------------------------------------------------
\* Plan nodes.  A node is a record; the fields a kind does not have stay at
\* their zero value.  children holds node identifiers.

FullTableRange == <<[LowVal |-> MinInt64, HighVal |-> MaxInt64]>>

RECURSIVE concatAll(_, _, _, _)
concatAll(cs, i, points, err) ==
    IF i > Len(cs) THEN [points |-> points, err |-> err]
    ELSE LET b == build(cs[i])
         IN  concatAll(cs, i + 1, points \o b.points, keepErr(err, b.err))

\* for _, cond := range conds { rangePoints = rb.intersection(rangePoints, rb.build(cond)) }
RECURSIVE intersectAll(_, _, _, _)
intersectAll(cs, i, points, err) ==
    IF i > Len(cs) THEN [points |-> points, err |-> err]
    ELSE LET b == build(cs[i])
             e == keepErr(err, b.err)
         IN  intersectAll(cs, i + 1, intersection(e, points, b.points), e)

\* for i := 1; i < p.AccessEqualCount; i++ { ... appendIndexRanges ... }
RECURSIVE equalLoop(_, _, _, _, _)
equalLoop(cs, i, k, ranges, err) ==
    IF i > k THEN [ranges |-> ranges, err |-> err]
    ELSE LET b == build(cs[i])
         IN  equalLoop(cs, i + 1, k, appendIndexRanges(ranges, b.points), keepErr(err, b.err))

equalPrefix(p) ==
    IF p.AccessEqualCount > 0
    THEN LET b == build(p.AccessConditions[1])
         IN  equalLoop(p.AccessConditions, 2, p.AccessEqualCount,
                       buildIndexRanges(b.points), b.err)
    ELSE [ranges |-> p.Ranges, err |-> NoErr]

buildIndexRangeNoAppend(p) ==
    LET eq == equalPrefix(p)
        rest == intersectAll(p.AccessConditions, p.AccessEqualCount + 1, fullRange, eq.err)
    IN  [node |-> [p EXCEPT !.Ranges =
                      IF p.AccessEqualCount = 0 THEN buildIndexRanges(rest.points)
                      ELSE eq.ranges],
         err |-> rest.err]

buildIndexRange(p) ==
    LET eq == equalPrefix(p)
        rest == intersectAll(p.AccessConditions, p.AccessEqualCount + 1, fullRange, eq.err)
    IN  [node |-> [p EXCEPT !.Ranges =
                      IF p.AccessEqualCount = 0 THEN buildIndexRanges(rest.points)
                      ELSE IF p.AccessEqualCount < Len(p.AccessConditions)
                           THEN appendIndexRanges(eq.ranges, rest.points)
                           ELSE eq.ranges],
         err |-> rest.err]

buildTableRangeNoDefault(p) ==
    IF Len(p.AccessConditions) = 0 THEN [node |-> p, err |-> NoErr]
    ELSE LET r == intersectAll(p.AccessConditions, 1, fullRange, NoErr)
         IN  [node |-> [p EXCEPT !.Ranges = buildTableRanges(r.points)], err |-> r.err]

buildTableRangeConcat(p) ==
    IF Len(p.AccessConditions) = 0
    THEN [node |-> [p EXCEPT !.Ranges = FullTableRange], err |-> NoErr]
    ELSE LET r == concatAll(p.AccessConditions, 1, <<>>, NoErr)
         IN  [node |-> [p EXCEPT !.Ranges = buildTableRanges(r.points)], err |-> r.err]

buildTableRange(p) ==
    IF Len(p.AccessConditions) = 0
    THEN [node |-> [p EXCEPT !.Ranges = FullTableRange], err |-> NoErr]
    ELSE LET r == intersectAll(p.AccessConditions, 1, fullRange, NoErr)
         IN  [node |-> [p EXCEPT !.Ranges = buildTableRanges(r.points)], err |-> r.err]

\* The loop of buildNewTableRange: it returns at the first predicate that
\* leaves an error in the builder.  n counts the predicates handed to newBuild.
RECURSIVE newLoopNoBreak(_, _, _, _)
newLoopNoBreak(cs, i, points, err) ==
    IF i > Len(cs) THEN [points |-> points, err |-> err, n |-> Len(cs), broke |-> FALSE]
    ELSE LET b == newBuild(cs[i])
             e == keepErr(err, b.err)
         IN  newLoopNoBreak(cs, i + 1, intersection(e, points, b.points), e)

RECURSIVE newLoop(_, _, _, _)
newLoop(cs, i, points, err) ==
    IF i > Len(cs) THEN [points |-> points, err |-> err, n |-> Len(cs), broke |-> FALSE]
    ELSE LET b == newBuild(cs[i])
             e == keepErr(err, b.err)
             pts == intersection(e, points, b.points)
         IN  IF e # NoErr THEN [points |-> pts, err |-> e, n |-> i, broke |-> TRUE]
             ELSE newLoop(cs, i + 1, pts, e)

buildNewTableRangeNoBreak(p, accessConditions) ==
    IF Len(accessConditions) = 0
    THEN [node |-> [p EXCEPT !.Ranges = FullTableRange], err |-> NoErr, built |-> 0]
    ELSE LET r == newLoopNoBreak(accessConditions, 1, fullRange, NoErr)
         IN  [node |-> [p EXCEPT !.AccessCondition = accessConditions,
                                 !.Ranges = buildTableRanges(r.points)],
              err |-> r.err, built |-> r.n]

buildNewTableRange(p, accessConditions) ==
    IF Len(accessConditions) = 0
    THEN [node |-> [p EXCEPT !.Ranges = FullTableRange], err |-> NoErr, built |-> 0]
    ELSE LET r == newLoop(accessConditions, 1, fullRange, NoErr)
             p1 == [p EXCEPT !.AccessCondition = accessConditions]
         IN  IF r.broke THEN [node |-> p1, err |-> r.err, built |-> r.n]
             ELSE [node |-> [p1 EXCEPT !.Ranges = buildTableRanges(r.points)],
                   err |-> r.err, built |-> r.n]

buildSelectionKeep(ns, id) ==
    LET child == ns[id].children[1]
    IN  IF ns[child].kind = "NewTableScan"
        THEN LET d == detachConditions(ns[id].Conditions, ns[child].Table, NoIdx, 0)
                 r == buildNewTableRange(ns[child], d[1])
             IN  [nodes |-> [ns EXCEPT ![child] = r.node], err |-> r.err, built |-> r.built]
        ELSE [nodes |-> ns, err |-> NoErr, built |-> 0]

buildSelection(ns, id) ==
    LET child == ns[id].children[1]
    IN  IF ns[child].kind = "NewTableScan"
        THEN LET d == detachConditions(ns[id].Conditions, ns[child].Table, NoIdx, 0)
                 r == buildNewTableRange(ns[child], d[1])
             IN  [nodes |-> [ns EXCEPT ![id].Conditions = d[2], ![child] = r.node],
                  err |-> r.err, built |-> r.built]
        ELSE [nodes |-> ns, err |-> NoErr, built |-> 0]

\* Limit.SetLimit (plan/plans.go, not part of the sources at hand): the
\* node's limit tracking state is overwritten.
SetLimit(p, n) == [p EXCEPT !.limit = n]

\* if e != nil { return errors.Trace(e) } after a child's refine.
childErrIgnored(e) == FALSE
childErrAborts(e) == e # NoErr

----------------------------------------------------------------------------
\* The plans refined: a Limit over a two-child node over two units, a unit
\* being a scan alone or a Selection or Limit over a scan.

SeqsUpTo(S, n) == UNION {[1..m -> S] : m \in 0..n}

PkA == Col("t", "a")
BadLit == Lit(StrDatum(<<"x">>))
EqPreds == { Bin("EQ", PkA, Lit(IntDatum(2))),
             <<"PatternIn", PkA, <<Lit(IntDatum(2)), Lit(IntDatum(0)), Lit(IntDatum(2))>>,
               FALSE, FALSE>>,
             Bin("EQ", PkA, BadLit) }
OldPreds == EqPreds \cup { Bin("GT", PkA, Lit(IntDatum(1))),
                           Bin("LT", PkA, Lit(IntDatum(1))),
                           Bin("NE", PkA, Lit(IntDatum(1))) }

NPkA == NCol("t", "a")
NewPreds == { Fn("gt", <<NPkA, NConst(IntDatum(1))>>),
              Fn("lt", <<NPkA, NConst(IntDatum(1))>>),
              Fn("ne", <<NConst(IntDatum(2)), NPkA>>),
              Fn("eq", <<NCol("t", "b"), NConst(IntDatum(1))>>),
              Fn("eq", <<NPkA, NCol("t", "b")>>),
              Fn("not", <<Fn("eq", <<NPkA, NConst(IntDatum(2))>>)>>),
              Fn("eq", <<NPkA, NConst(StrDatum(<<"x">>))>>) }

TableColumns == << <<"b", FALSE>>, <<"a", TRUE>> >>
TablePK == [Name |-> "t", PKIsHandle |-> TRUE, Columns |-> TableColumns]
TableNoPK == [Name |-> "t", PKIsHandle |-> FALSE, Columns |-> TableColumns]

Node(kind, children) ==
    [kind |-> kind, children |-> children, AccessConditions |-> <<>>,
     AccessEqualCount |-> 0, Ranges |-> <<>>, Conditions |-> <<>>,
     AccessCondition |-> <<>>, Table |-> TablePK, limit |-> 0]

Unused == Node("Unused", <<>>)
LimitNode(child) == [Node("Limit", <<child>>) EXCEPT !.limit = 1]
IndexScanNode(ac, k) ==
    [Node("IndexScan", <<>>) EXCEPT !.AccessConditions = ac, !.AccessEqualCount = k]
TableScanNode(ac) == [Node("TableScan", <<>>) EXCEPT !.AccessConditions = ac]
NewTableScanNode(tbl) == [Node("NewTableScan", <<>>) EXCEPT !.Table = tbl]
SelectionNode(cs, child) == [Node("Selection", <<child>>) EXCEPT !.Conditions = cs]

\* AccessEqualCount counts the leading equality (= or IN) access conditions.
IndexScans ==
    {IndexScanNode(ac, k) : <<ac, k>> \in
        {x \in SeqsUpTo(OldPreds, MaxIndexConds) \X (0..MaxIndexConds) :
            x[2] <= Len(x[1]) /\ \A i \in 1..x[2] : x[1][i] \in EqPreds}}

TableScans == {TableScanNode(ac) : ac \in SeqsUpTo(OldPreds, MaxConds)}

\* A unit rooted at node u: <<node u, node u + 1>>.
Units(u) ==
    {<<n, Unused>> : n \in IndexScans \cup TableScans \cup {NewTableScanNode(TablePK)}}
    \cup {<<LimitNode(u + 1), n>> : n \in TableScans}
    \cup {<<SelectionNode(cs, u + 1), NewTableScanNode(tbl)>> :
            cs \in SeqsUpTo(NewPreds, MaxConds), tbl \in {TablePK, TableNoPK}}
    \cup {<<SelectionNode(cs, u + 1), TableScanNode(<<>>)>> : cs \in SeqsUpTo(NewPreds, 1)}

SmallUnits(u) ==
    { <<NewTableScanNode(TablePK), Unused>>,
      <<IndexScanNode(<<>>, 0), Unused>>,
      <<LimitNode(u + 1), TableScanNode(<<>>)>>,
      <<SelectionNode(<<Fn("gt", <<NPkA, NConst(IntDatum(1))>>)>>, u + 1),
        NewTableScanNode(TablePK)>> }

Root == 1
Plans ==
    {[i \in 1..6 |->
        CASE i = 1 -> LimitNode(2)
          [] i = 2 -> Node("Join", <<3, 5>>)
          [] i = 3 -> l[1]
          [] i = 4 -> l[2]
          [] i = 5 -> r[1]
          [] i = 6 -> r[2]] : l \in Units(3), r \in SmallUnits(5)}

----------------------------------------------------------------------------
\* refine: the recursion is a stack of frames <<node, index of the next
\* child>>; pending is the error returned by the call that just ended.

Top == stack[Len(stack)]
Pop == SubSeq(stack, 1, Len(stack) - 1)
Running == result = "running" /\ stack # <<>>
ChildrenDone == Top[2] > Len(nodes[Top[1]].children)

InitRefine ==
    /\ nodes \in Plans
    /\ orig = nodes
    /\ stack = << <<Root, 1>> >>
    /\ pending = NoErr
    /\ result = "running"
    /\ lastBuilt = 0

IdleDetach ==
    /\ conds = <<>> /\ table = TablePK /\ idx = NoIdx /\ colOffset = 0 /\ detached = <<>>

IdleCheck ==
    /\ cexpr = Lit(NullDatum)
    /\ target = [tableName |-> "t", pkName |-> "a", idx |-> NoIdx, columnOffset |-> 0]
    /\ resCheck = "none" /\ resNewCheck = "none"

Init == InitRefine /\ IdleDetach /\ IdleCheck

\* e := refine(c) for the next child c.
Descend ==
    /\ Running /\ ~ChildrenDone /\ ~childErrAborts(pending)
    /\ stack' = Append([stack EXCEPT ![Len(stack)] = <<Top[1], Top[2] + 1>>],
                       <<nodes[Top[1]].children[Top[2]], 1>>)
    /\ UNCHANGED <<nodes, orig, pending, result, lastBuilt, detachVars, checkVars>>

\* if e != nil { return errors.Trace(e) }
ReturnChildErr ==
    /\ Running /\ childErrAborts(pending)
    /\ stack' = Pop
    /\ UNCHANGED <<nodes, orig, pending, result, lastBuilt, detachVars, checkVars>>

Visit(kind) == Running /\ ChildrenDone /\ ~childErrAborts(pending) /\ nodes[Top[1]].kind = kind

VisitIndexScan ==
    /\ Visit("IndexScan")
    /\ LET r == buildIndexRange(nodes[Top[1]])
       IN  /\ nodes' = [nodes EXCEPT ![Top[1]] = r.node]
           /\ pending' = r.err
    /\ stack' = Pop
    /\ UNCHANGED <<orig, result, lastBuilt, detachVars, checkVars>>

VisitLimit ==
    /\ Visit("Limit")
    /\ nodes' = [nodes EXCEPT ![Top[1]] = SetLimit(nodes[Top[1]], 0)]
    /\ pending' = NoErr
    /\ stack' = Pop
    /\ UNCHANGED <<orig, result, lastBuilt, detachVars, checkVars>>

VisitTableScan ==
    /\ Visit("TableScan")
    /\ LET r == buildTableRange(nodes[Top[1]])
       IN  /\ nodes' = [nodes EXCEPT ![Top[1]] = r.node]
           /\ pending' = r.err
    /\ stack' = Pop
    /\ UNCHANGED <<orig, result, lastBuilt, detachVars, checkVars>>

VisitNewTableScan ==
    /\ Visit("NewTableScan")
    /\ nodes' = [nodes EXCEPT ![Top[1]].Ranges = FullTableRange]
    /\ pending' = NoErr
    /\ stack' = Pop
    /\ UNCHANGED <<orig, result, lastBuilt, detachVars, checkVars>>

VisitSelection ==
    /\ Visit("Selection")
    /\ LET r == buildSelection(nodes, Top[1])
       IN  /\ nodes' = r.nodes
           /\ pending' = r.err
           /\ lastBuilt' = r.built
    /\ stack' = Pop
    /\ UNCHANGED <<orig, result, detachVars, checkVars>>

\* Any other node kind: the switch has no case for it.
VisitOther ==
    /\ Visit("Join")
    /\ pending' = NoErr
    /\ stack' = Pop
    /\ UNCHANGED <<nodes, orig, result, lastBuilt, detachVars, checkVars>>

\* Refine returns what refine(p) returned.
Return ==
    /\ result = "running" /\ stack = <<>>
    /\ result' = IF pending = NoErr THEN "ok" ELSE pending
    /\ UNCHANGED <<nodes, orig, stack, pending, lastBuilt, detachVars, checkVars>>

Next ==
    \/ Descend \/ ReturnChildErr \/ VisitIndexScan \/ VisitLimit \/ VisitTableScan
    \/ VisitNewTableScan \/ VisitSelection \/ VisitOther \/ Return

Spec == Init /\ [][Next]_vars

----------------------------------------------------------------------------
\* detachConditions applied to bounded inputs.

TablePKFirst == [Name |-> "t", PKIsHandle |-> TRUE,
                 Columns |-> << <<"a", TRUE>>, <<"b", FALSE>> >>]

IndexTargets == {<<NoIdx, 0>>, <<<<"b">>, 0>>, <<<<"a", "b">>, 0>>, <<<<"a", "b">>, 1>>}

IdleRefine ==
    /\ nodes = [i \in 1..6 |-> Unused] /\ orig = nodes /\ stack = <<>>
    /\ pending = NoErr /\ result = "idle" /\ lastBuilt = 0

InitDetach ==
    /\ conds \in SeqsUpTo(NewPreds, MaxDetachLen)
    /\ table \in {TablePK, TableNoPK, TablePKFirst}
    /\ \E t \in IndexTargets : idx = t[1] /\ colOffset = t[2]
    /\ detached = <<>>
    /\ IdleRefine /\ IdleCheck

Detach ==
    /\ detached = <<>>
    /\ detached' = detachConditions(conds, table, idx, colOffset)
    /\ UNCHANGED <<conds, table, idx, colOffset, refineVars, checkVars>>

NextDetach == Detach

SpecDetach == InitDetach /\ [][NextDetach]_vars

----------------------------------------------------------------------------
\* The two classifiers applied to bounded inputs: cexpr is an ast
\* expression, ToScalar(cexpr) the same predicate in the expression form.

Operands == {Col("t", "a"), Col("t", "b"), Col("s", "a"), Lit(IntDatum(1))}
CmpExprs == {Bin(op, l, r) : op \in CompareOps, l \in Operands, r \in Operands}
BaseExprs == { Bin("EQ", Col("t", "a"), Lit(IntDatum(1))),
               Bin("LT", Lit(IntDatum(1)), Col("t", "a")),
               Bin("GT", Col("t", "b"), Lit(IntDatum(1))),
               Bin("EQ", Col("t", "a"), Col("t", "b")),
               Lit(IntDatum(1)), Col("t", "a"),
               <<"IsNull", Col("t", "a"), FALSE>>,
               <<"IsTruth", Col("t", "b"), TRUE>> }
LogicExprs == {Bin(op, l, r) : op \in {"AndAnd", "OrOr"}, l \in BaseExprs, r \in BaseExprs}
NotExprs == {<<"Unary", "Not", e>> : e \in BaseExprs}
IsExprs == {<<"IsNull", e, n>> : e \in Operands, n \in BOOLEAN}
           \cup {<<"IsTruth", e, t>> : e \in Operands, t \in BOOLEAN}
PatternChars == {"%", "_", ".", "a"}
Patterns == {Lit(StrDatum(p)) : p \in SeqsUpTo(PatternChars, MaxPatLen)}
            \cup {Lit(NullDatum), Col("t", "b")}
LikeExprs == {<<"PatternLike", e, p, n>> :
                e \in {Col("t", "a"), Col("t", "b"), Lit(IntDatum(1))},
                p \in Patterns, n \in BOOLEAN}
OtherExprs == { <<"Between", Col("t", "a"), Lit(IntDatum(0)), Lit(IntDatum(2))>>,
                <<"Between", Col("t", "a"), Col("t", "b"), Lit(IntDatum(2))>>,
                <<"Between", Col("t", "b"), Lit(IntDatum(0)), Lit(IntDatum(2))>>,
                <<"Paren", Bin("EQ", Col("t", "a"), Lit(IntDatum(1)))>>,
                <<"Paren", Bin("EQ", Col("t", "b"), Lit(IntDatum(1)))>>,
                <<"PatternIn", Col("t", "a"), <<Lit(IntDatum(1)), Lit(IntDatum(2))>>, FALSE, FALSE>>,
                <<"PatternIn", Col("t", "a"), <<Lit(IntDatum(1)), Lit(IntDatum(2))>>, TRUE, FALSE>>,
                <<"PatternIn", Col("t", "a"), <<Lit(IntDatum(1))>>, FALSE, TRUE>>,
                <<"PatternIn", Col("t", "a"), <<Lit(IntDatum(1)), Col("t", "b")>>, FALSE, FALSE>>,
                <<"PatternIn", Col("t", "b"), <<Lit(IntDatum(1))>>, FALSE, FALSE>>,
                Bin("Plus", Col("t", "a"), Lit(IntDatum(1))),
                <<"FuncCall", "abs", Col("t", "a")>> }
CheckExprs == CmpExprs \cup BaseExprs \cup LogicExprs \cup NotExprs \cup IsExprs
              \cup LikeExprs \cup OtherExprs

Targets == { [tableName |-> "t", pkName |-> "a", idx |-> NoIdx, columnOffset |-> 0],
             [tableName |-> "t", pkName |-> "", idx |-> <<"b", "a">>, columnOffset |-> 1],
             [tableName |-> "t", pkName |-> "", idx |-> <<"b", "a">>, columnOffset |-> 0],
             [tableName |-> "t", pkName |-> "", idx |-> NoIdx, columnOffset |-> 0] }

binaryFunc(op) ==
    CASE op = "AndAnd" -> "andand" [] op = "OrOr" -> "oror"
      [] op = "EQ" -> "eq" [] op = "NE" -> "ne" [] op = "GE" -> "ge"
      [] op = "GT" -> "gt" [] op = "LE" -> "le" [] op = "LT" -> "lt"
      [] OTHER -> "plus"

RECURSIVE ToScalar(_)
ToScalar(e) ==
    CASE e[1] = "Binary" -> Fn(binaryFunc(e[2]), <<ToScalar(e[3]), ToScalar(e[4])>>)
      [] e[1] = "ColumnName" -> NCol(e[2], e[3])
      [] e[1] = "Value" -> NConst(e[2])
      [] e[1] = "IsNull" ->
            IF e[3] THEN Fn("not", <<Fn("isnull", <<ToScalar(e[2])>>)>>)
            ELSE Fn("isnull", <<ToScalar(e[2])>>)
      [] e[1] = "IsTruth" ->
            Fn(IF e[3] THEN "istruth" ELSE "isfalsity", <<ToScalar(e[2])>>)
      [] e[1] = "Unary" -> Fn("not", <<ToScalar(e[3])>>)
      [] e[1] = "Paren" -> ToScalar(e[2])
      [] e[1] = "Between" -> Fn("between", <<ToScalar(e[2]), ToScalar(e[3]), ToScalar(e[4])>>)
      [] e[1] = "PatternIn" -> Fn("in", <<ToScalar(e[2])>>)
      [] e[1] = "PatternLike" -> Fn("like", <<ToScalar(e[2]), ToScalar(e[3])>>)
      [] OTHER -> Fn(e[2], <<ToScalar(e[3])>>)

InitCheck ==
    /\ cexpr \in CheckExprs
    /\ target \in Targets
    /\ resCheck = "none" /\ resNewCheck = "none"
    /\ IdleRefine /\ IdleDetach

Outcome(b) == IF b THEN "true" ELSE "false"

DoCheck ==
    /\ resCheck = "none"
    /\ resCheck' = IF checkPanics(target, cexpr) THEN "panic"
                   ELSE Outcome(check(target, cexpr))
    /\ UNCHANGED <<cexpr, target, resNewCheck, refineVars, detachVars>>

DoNewCheck ==
    /\ resNewCheck = "none"
    /\ resNewCheck' = Outcome(newCheck(target, ToScalar(cexpr)))
    /\ UNCHANGED <<cexpr, target, resCheck, refineVars, detachVars>>

NextCheck == DoCheck \/ DoNewCheck

SpecCheck == InitCheck /\ [][NextCheck]_vars

----------------------------------------------------------------------------
\* Properties.

IsErr(r) == r \in {ErrUnsupported, ErrCoercion}
ScanKinds == {"IndexScan", "TableScan", "NewTableScan"}
InSeq(x, s) == \E i \in 1..Len(s) : s[i] = x

RECURSIVE Pick(_, _, _, _)
Pick(s, f, b, i) ==
    IF i > Len(s) THEN <<>>
    ELSE (IF f[i] = b THEN <<s[i]>> ELSE <<>>) \o Pick(s, f, b, i + 1)

\* C1: detachConditions returns (accessible, residual) that partition the
\* input: some assignment of every input position to exactly one of the two
\* outputs yields both outputs, each in input order, nothing lost or repeated.
C1_SplitPartitions ==
    detached # <<>> =>
        \E f \in [1..Len(conds) -> BOOLEAN] :
            /\ detached[1] = Pick(conds, f, TRUE, 1)
            /\ detached[2] = Pick(conds, f, FALSE, 1)

C1_Witness ==
    /\ detached # <<>>
    /\ Len(conds) = 3 /\ conds[1] = conds[3] /\ conds[1] # conds[2]
    /\ Len(detached[1]) = 2 /\ Len(detached[2]) = 1

\* C2: once a node's range building has failed, no node is written any more
\* and the error reported by Refine is that first error; the failing step
\* itself writes only the node visited and its children.
C2_AbortOnFirstError ==
    [][ /\ (pending # NoErr =>
               /\ nodes' = nodes
               /\ pending' = pending
               /\ (result' # result => result' = pending))
        /\ (pending = NoErr /\ pending' # NoErr =>
               \A n \in DOMAIN nodes :
                   (n # Top[1] /\ ~InSeq(n, nodes[Top[1]].children)) => nodes'[n] = nodes[n])
      ]_vars

C2_Witness ==
    /\ IsErr(result)
    /\ orig[3].kind = "TableScan"
    /\ nodes[5].kind = "Selection" /\ nodes[5] = orig[5] /\ nodes[6].Ranges = <<>>
    /\ nodes[1].limit = 1

\* Ascending and pairwise disjoint: each range ends before the next begins.
TableRangesSorted(rs) ==
    \A i \in 1..(Len(rs) - 1) : rs[i].HighVal < rs[i + 1].LowVal

RECURSIVE lexCmp(_, _, _)
lexCmp(a, b, i) ==
    IF i > Len(a) \/ i > Len(b) THEN 0
    ELSE IF datumKey(a[i]) < datumKey(b[i]) THEN -1
    ELSE IF datumKey(a[i]) > datumKey(b[i]) THEN 1
    ELSE lexCmp(a, b, i + 1)

IndexRangesSorted(rs) ==
    \A i \in 1..(Len(rs) - 1) :
        \/ lexCmp(rs[i].HighVal, rs[i + 1].LowVal, 1) < 0
        \/ /\ lexCmp(rs[i].HighVal, rs[i + 1].LowVal, 1) = 0
           /\ (rs[i].HighExclude \/ rs[i + 1].LowExclude)

RangesSorted(n) ==
    IF n.kind = "IndexScan" THEN IndexRangesSorted(n.Ranges) ELSE TableRangesSorted(n.Ranges)

HasAccessPredicates(n) == n.AccessConditions # <<>> \/ n.AccessCondition # <<>>

SelectionOverNewTableScan(s) ==
    /\ nodes[s].kind = "Selection"
    /\ nodes[nodes[s].children[1]].kind = "NewTableScan"

Residual(cs, tbl) == Pick(cs, [i \in 1..Len(cs) |-> isAccess(cs[i], tbl, NoIdx, 0)], FALSE, 1)
Accessible(cs, tbl) == Pick(cs, [i \in 1..Len(cs) |-> isAccess(cs[i], tbl, NoIdx, 0)], TRUE, 1)

RECURSIVE NewIntersect(_, _)
NewIntersect(cs, i) ==
    IF i = 0 THEN fullRange ELSE merge(NewIntersect(cs, i - 1), newBuild(cs[i]).points, 2)

\* C4: after a successful Refine, a Selection directly above a NewTableScan
\* holds exactly the residual predicates of its original list, and the scan's
\* Ranges are those of the intersection of the accessible predicates (the
\* full range written at the scan's own visit has been overwritten).
C4_SelectionRewrite ==
    result = "ok" =>
        \A s \in DOMAIN nodes :
            SelectionOverNewTableScan(s) =>
                LET c == nodes[s].children[1]
                    acc == Accessible(orig[s].Conditions, orig[c].Table)
                IN  /\ nodes[s].Conditions = Residual(orig[s].Conditions, orig[c].Table)
                    /\ nodes[c].Ranges =
                          IF acc = <<>> THEN FullTableRange
                          ELSE buildTableRanges(NewIntersect(acc, Len(acc)))

C4_Witness ==
    /\ result = "ok"
    /\ SelectionOverNewTableScan(3)
    /\ Len(orig[3].Conditions) = 2 /\ Len(nodes[3].Conditions) = 1
    /\ nodes[4].Ranges # FullTableRange /\ nodes[4].Ranges # <<>>

\* A predicate in both representations: AND, OR, the six comparisons,
\* IS NULL, IS TRUTHY, negation, a plain column reference, a literal.
RECURSIVE InCommon(_)
InCommon(e) ==
    CASE e[1] = "Binary" ->
            e[2] \in CompareOps \cup {"AndAnd", "OrOr"} /\ InCommon(e[3]) /\ InCommon(e[4])
      [] e[1] \in {"IsNull", "IsTruth"} -> InCommon(e[2])
      [] e[1] = "Unary" -> InCommon(e[3])
      [] e[1] \in {"ColumnName", "Value"} -> TRUE
      [] OTHER -> FALSE

\* C5: on every predicate expressible in both representations, check on
\* the ast form and newCheck on the expression form agree.
C5_ClassifiersAgree ==
    (resCheck # "none" /\ resNewCheck # "none" /\ InCommon(cexpr)) => resCheck = resNewCheck

ParentSelection(n) ==
    {s \in DOMAIN nodes : nodes[s].kind = "Selection" /\ nodes[s].children = <<n>>}

\* C6: after a successful Refine a scan with zero access predicates has
\* exactly one range, the whole domain: (MinInt64, MaxInt64) for a TableScan
\* without AccessConditions, a NewTableScan on its own and a NewTableScan
\* under a Selection whose predicates are all residual; the range of the
\* full point pair for an IndexScan without AccessConditions.
C6_NoPredicateFullRange ==
    result = "ok" =>
        \A n \in DOMAIN nodes :
            /\ (nodes[n].kind = "TableScan" /\ nodes[n].AccessConditions = <<>>) =>
                   nodes[n].Ranges = <<[LowVal |-> MinInt64, HighVal |-> MaxInt64]>>
            /\ (nodes[n].kind = "NewTableScan"
                /\ \A s \in ParentSelection(n) :
                       Accessible(orig[s].Conditions, orig[n].Table) = <<>>) =>
                   nodes[n].Ranges = <<[LowVal |-> MinInt64, HighVal |-> MaxInt64]>>
            /\ (nodes[n].kind = "IndexScan" /\ nodes[n].AccessConditions = <<>>) =>
                   nodes[n].Ranges = <<[LowVal |-> <<NullDatum>>, HighVal |-> <<MaxValueDatum>>,
                                        LowExclude |-> FALSE, HighExclude |-> FALSE]>>

C6_Witness ==
    /\ result = "ok"
    /\ SelectionOverNewTableScan(3) /\ Len(orig[3].Conditions) = 2
    /\ nodes[3].Conditions = orig[3].Conditions
    /\ nodes[4].Ranges = FullTableRange
    /\ nodes[5].kind = "Limit" /\ nodes[6].Ranges = FullTableRange

Intervals(points) == Len(points) \div 2

RECURSIVE EqualProduct(_, _)
EqualProduct(cs, k) ==
    IF k = 0 THEN 1 ELSE EqualProduct(cs, k - 1) * Intervals(build(cs[k]).points)

RECURSIVE OldIntersect(_, _, _)
OldIntersect(cs, k, i) ==
    IF i = k THEN fullRange ELSE merge(OldIntersect(cs, k, i - 1), build(cs[i]).points, 2)

PointValues(points) == {points[i].value : i \in 1..Len(points)}

\* C7: after a successful Refine, an IndexScan with AccessEqualCount = k >= 1
\* and n >= k access predicates has as many Ranges as the product of the
\* interval counts of its k equality builds, times the interval count of the
\* intersection of the builds of predicates k..n-1 when n > k; every range
\* has k + 1 values per side when n > k and k when n = k, position i of the
\* prefix holding a value built from predicate i.
C7_IndexCartesian ==
    result = "ok" =>
        \A x \in DOMAIN nodes :
            (nodes[x].kind = "IndexScan" /\ nodes[x].AccessEqualCount >= 1) =>
                LET cs == nodes[x].AccessConditions
                    k == nodes[x].AccessEqualCount
                    n == Len(cs)
                    width == IF n > k THEN k + 1 ELSE k
                    tail == IF n > k THEN Intervals(OldIntersect(cs, k, n)) ELSE 1
                IN  /\ Len(nodes[x].Ranges) = EqualProduct(cs, k) * tail
                    /\ \A j \in 1..Len(nodes[x].Ranges) :
                          /\ Len(nodes[x].Ranges[j].LowVal) = width
                          /\ Len(nodes[x].Ranges[j].HighVal) = width
                          /\ \A i \in 1..k :
                                nodes[x].Ranges[j].LowVal[i] \in PointValues(build(cs[i]).points)

C7_Witness ==
    /\ result = "ok"
    /\ nodes[3].kind = "IndexScan"
    /\ nodes[3].AccessEqualCount = 1 /\ Len(nodes[3].AccessConditions) = 3
    /\ Len(nodes[3].Ranges) = 4

IsColumnLiteralCompare(e) ==
    /\ e[1] = "ScalarFunction" /\ e[2] \in CompareFuncs
    /\ e[3][1][1] = "Column" /\ e[3][2][1] = "Constant"

\* C8: invoked with an index and a column offset, the splitter classifies a
\* comparison of a column of the table with a literal as accessible iff the
\* column is the index's column at that offset.
C8_IndexColumnTarget ==
    (detached # <<>> /\ idx # NoIdx) =>
        \A i \in 1..Len(conds) :
            (IsColumnLiteralCompare(conds[i]) /\ conds[i][3][1][2] = table.Name) =>
                (InSeq(conds[i], detached[1]) <=> conds[i][3][1][3] = idx[colOffset + 1])

\* C9: check accepts a LIKE iff it is not negated, tests a plain reference
\* to the target column, has a literal string pattern, and the pattern's
\* first character is neither '%' nor '_'.
C9_LikeRule ==
    (resCheck # "none" /\ cexpr[1] = "PatternLike") =>
        (resCheck = "true" <=>
            /\ ~cexpr[4]
            /\ checkColumnExpr(target, cexpr[2])
            /\ cexpr[3][1] = "Value" /\ cexpr[3][2][1] = "str"
            /\ Len(cexpr[3][2][2]) > 0
            /\ cexpr[3][2][2][1] \notin {"%", "_"})

FirstFailing(cs) ==
    CHOOSE i \in 1..Len(cs) :
        newBuild(cs[i]).err # NoErr /\ \A j \in 1..(i - 1) : newBuild(cs[j]).err = NoErr

\* C10: when the visit of a Selection over a NewTableScan fails, the scan
\* keeps the full range of its own visit, no predicate after the first
\* failing one has been built, the Selection already holds the residual
\* predicates and the scan's AccessCondition the accessible ones.
C10_FailedSelectionState ==
    [][ (Visit("Selection") /\ SelectionOverNewTableScan(Top[1]) /\ pending' # NoErr) =>
            LET s == Top[1]
                c == nodes[s].children[1]
                acc == Accessible(nodes[s].Conditions, nodes[c].Table)
            IN  /\ nodes'[c].Ranges = <<[LowVal |-> MinInt64, HighVal |-> MaxInt64]>>
                /\ nodes'[c].AccessCondition = acc
                /\ nodes'[s].Conditions = Residual(nodes[s].Conditions, nodes[c].Table)
                /\ lastBuilt' = FirstFailing(acc)
      ]_vars

C10_Witness ==
    /\ IsErr(result)
    /\ SelectionOverNewTableScan(3)
    /\ lastBuilt = 1 /\ Len(nodes[4].AccessCondition) = 2
    /\ Len(orig[3].Conditions) = 2 /\ nodes[3].Conditions = <<>>
    /\ nodes[4].Ranges = FullTableRange

====
